---- MODULE Spec2Model ----
(***************************************************************************)
(* Smart Auto Loan Planner: the finance calculator (finance_calculator.py) *)
(* and the script that drives it (app.py).                                 *)
(*                                                                         *)
(* Python floats are modelled as decimal floating-point numbers of 16      *)
(* significant digits (a double carries 53 bits, about 15.95 digits).      *)
(* Every operation returns the exact result rounded half-even to 16        *)
(* digits, so absorption (1 + x = 1 for tiny x), cancellation and          *)
(* accumulated drift happen in the model where they happen in the code.    *)
(* A float is <<sign, hi, lo, exp>>: sign * (hi * 10^8 + lo) * 10^exp,     *)
(* hi in [10^7, 10^8) unless the number is zero.                           *)
(***************************************************************************)
EXTENDS Integers, Sequences, FiniteSets, TLC

B4 == 100 * 100
B8 == B4 * B4

P10 == <<1, 10, 100, 1000, 10000, 100000, 1000000, 10000000, 100000000, 1000000000>>
Pow10(k) == P10[k + 1]

\* Number of decimal digits of x, 0 < x < 2^31.
Digits(x) ==
  IF x >= Pow10(9) THEN 10 ELSE CHOOSE k \in 1..9 : Pow10(k - 1) <= x /\ x < Pow10(k)

Zero == <<0, 0, 0, 0>>

\* The element of a singleton set.  TLC evaluates an operator's argument each
\* time the operator reads it; Val({Op(x) : x \in {argument}}) evaluates the
\* argument once and hands Op its value.  The operators below whose name ends
\* in V expect values.
Val(S) == CHOOSE v \in S : TRUE

\* The three limbs w2 > 0 (k digits), w1, w0 cut after 16 digits:
\* <<hi, lo, the digits cut off, half a unit of the last digit kept>>.
Cut(w2, w1, w0, k) ==
  IF k = 9 THEN <<w2 \div 10, (w2 % 10) * Pow10(7) + w1 \div 10, (w1 % 10) * B8 + w0, 5 * B8>>
  ELSE <<w2 * Pow10(8 - k) + w1 \div Pow10(k),
         (w1 % Pow10(k)) * Pow10(8 - k) + w0 \div Pow10(k),
         w0 % Pow10(k), 5 * Pow10(k - 1)>>

\* Round half-even: up when more than half is cut off, or exactly half and the
\* last digit kept is odd.
RoundUp(sign, c, sticky, e, k) ==
  LET up == c[3] > c[4] \/ (c[3] = c[4] /\ (sticky \/ c[2] % 2 = 1))
      lo1 == IF up THEN c[2] + 1 ELSE c[2]
      hi1 == IF lo1 = B8 THEN c[1] + 1 ELSE c[1]
  IN IF hi1 = B8 THEN <<sign, Pow10(7), 0, e + k + 1>>
     ELSE <<sign, hi1, lo1 % B8, e + k>>

\* sign * (w2 * 10^16 + w1 * 10^8 + w0 [+ a fraction when sticky]) * 10^e,
\* rounded half-even to 16 significant digits.  w1, w0 < 10^8, w2 < 2 * 10^8.
RoundV(sign, w2, w1, w0, sticky, e) ==
  IF w2 > 0 THEN
    Val({Val({RoundUp(sign, c, sticky, e, k) : c \in {Cut(w2, w1, w0, k)}}) :
           k \in {Digits(w2)}})
  ELSE IF w1 > 0 THEN
    Val({<<sign, w1 * Pow10(s) + w0 \div Pow10(8 - s), (w0 % Pow10(8 - s)) * Pow10(s), e - s>> :
           s \in {8 - Digits(w1)}})
  ELSE IF w0 > 0 THEN
    Val({<<sign, w0 * Pow10(s), 0, e - 8 - s>> : s \in {8 - Digits(w0)}})
  ELSE Zero

RoundW(sign, w2, w1, w0, sticky, e) ==
  Val({RoundV(t[1], t[2], t[3], t[4], t[5], t[6]) : t \in {<<sign, w2, w1, w0, sticky, e>>}})

\* The float of an integer, and of the decimal literal m * 10^e.
F(n) ==
  Val({RoundV(IF v < 0 THEN -1 ELSE 1, 0, (IF v < 0 THEN -v ELSE v) \div B8,
              (IF v < 0 THEN -v ELSE v) % B8, FALSE, 0) : v \in {n}})

Lit(m, e) ==
  Val({IF f[1] = 0 THEN Zero ELSE <<f[1], f[2], f[3], f[4] + e>> : f \in {F(m)}})

FNeg(a) == <<-a[1], a[2], a[3], a[4]>>

\* x * y for x, y < 10^8, as <<high limb, low limb>>.
Mul8(x, y) ==
  LET x1 == x \div B4
      x0 == x % B4
      y1 == y \div B4
      y0 == y % B4
      mid == x1 * y0 + x0 * y1
      t == (mid % B4) * B4 + x0 * y0
  IN <<x1 * y1 + mid \div B4 + t \div B8, t % B8>>

\* float * float from the four partial products p of the mantissas' limbs.
MulSum(a, b, p) ==
  LET t1 == p[4][1] + p[2][2] + p[3][2]
      t2 == p[1][2] + p[2][1] + p[3][1] + t1 \div B8
  IN RoundW(a[1] * b[1], p[1][1] + t2 \div B8, t2 % B8, t1 % B8, p[4][2] # 0,
            a[4] + b[4] + 8)

MulV(a, b) ==
  IF a[1] = 0 \/ b[1] = 0 THEN Zero
  ELSE Val({MulSum(a, b, p) :
              p \in {<<Mul8(a[2], b[2]), Mul8(a[2], b[3]), Mul8(a[3], b[2]), Mul8(a[3], b[3])>>}})

FMul(a, b) == Val({MulV(x, y) : x \in {a}, y \in {b}})

\* y's mantissa shifted right by d <= 24 digits, as three limbs and a flag
\* telling whether nonzero digits fell off the last limb.
Align(y, d) ==
  IF d <= 8 THEN
    <<y[2] \div Pow10(d),
      (y[2] % Pow10(d)) * Pow10(8 - d) + y[3] \div Pow10(d),
      (y[3] % Pow10(d)) * Pow10(8 - d), FALSE>>
  ELSE IF d <= 16 THEN
    <<0, y[2] \div Pow10(d - 8),
      (y[2] % Pow10(d - 8)) * Pow10(16 - d) + y[3] \div Pow10(d - 8),
      y[3] % Pow10(d - 8) # 0>>
  ELSE
    <<0, 0, y[2] \div Pow10(d - 16),
      y[2] % Pow10(d - 16) # 0 \/ y[3] # 0>>

\* The limbs r of the sum or difference of the aligned mantissas, normalised.
AddLimbs(x, sticky, r) ==
  LET neg == r[1] < 0 \/ (r[1] = 0 /\ (r[2] < 0 \/ (r[2] = 0 /\ r[3] < 0)))
      m2 == IF neg THEN -r[1] ELSE r[1]
      m1 == IF neg THEN -r[2] ELSE r[2]
      m0 == IF neg THEN -r[3] ELSE r[3]
      n1 == m1 + m0 \div B8
  IN RoundW(IF neg THEN -x[1] ELSE x[1], m2 + n1 \div B8, n1 % B8, m0 % B8,
            sticky, x[4] - 8)

\* float + float, x the operand with the larger exponent.
AddOrdered(x, y) ==
  IF x[4] - y[4] > 24 THEN x
  ELSE Val({Val({AddLimbs(x, Y[4], r) :
                   r \in {IF x[1] = y[1] THEN <<x[2] + Y[1], x[3] + Y[2], Y[3]>>
                          ELSE <<x[2] - Y[1], x[3] - Y[2],
                                 (-Y[3]) - (IF Y[4] THEN 1 ELSE 0)>>}}) :
              Y \in {Align(y, x[4] - y[4])}})

AddV(a, b) ==
  IF a[1] = 0 THEN b
  ELSE IF b[1] = 0 THEN a
  ELSE IF a[4] >= b[4] THEN AddOrdered(a, b) ELSE AddOrdered(b, a)

FAdd(a, b) == Val({AddV(x, y) : x \in {a}, y \in {b}})

FSub(a, b) == Val({AddV(x, FNeg(y)) : x \in {a}, y \in {b}})

\* Comparisons: the sign of the rounded difference is the sign of the exact one.
FLt(a, b) == FSub(a, b)[1] < 0
FLe(a, b) == FSub(a, b)[1] <= 0
FGt(a, b) == FLt(b, a)
FGe(a, b) == FLe(b, a)

\* One step of the long division of the mantissas: R = <<rh, rl, Q>> holds the
\* running remainder (below ten times the divisor <<bh, bl>>) and the quotient
\* so far, Q = <<q2, q1, q0>>; the step appends one decimal digit q to Q.
\* n is the remainder less qe times the divisor, qe = rh \div (bh + 1) being
\* the digit or one less.
DivDigit(Q, qe, n, bh, bl) ==
  LET more == n[1] > bh \/ (n[1] = bh /\ n[2] >= bl)
      q == IF more THEN qe + 1 ELSE qe
      t0 == Q[3] * 10 + q
      t1 == Q[2] * 10 + t0 \div B8
  IN <<IF more THEN n[1] - bh + (n[2] - bl) \div B8 ELSE n[1],
       IF more THEN (n[2] - bl) % B8 ELSE n[2],
       <<Q[1] * 10 + t1 \div B8, t1 % B8, t0 % B8>>>>

DivStepV(R, bh, bl) ==
  Val({Val({DivDigit(R[3], qe, n, bh, bl) :
              n \in {<<R[1] - qe * bh + (R[2] - qe * bl) \div B8, (R[2] - qe * bl) % B8>>}}) :
         qe \in {R[1] \div (bh + 1)}})

TimesTen(R) == <<R[1] * 10 + (R[2] * 10) \div B8, (R[2] * 10) % B8, R[3]>>

\* i further digits of the quotient.  The steps are taken in order; the loop
\* is split in halves to keep the evaluation shallow.
RECURSIVE DivLoopV(_, _, _, _)
DivLoopV(R, bh, bl, i) ==
  IF i = 0 THEN R
  ELSE IF i = 1 THEN Val({DivStepV(r, bh, bl) : r \in {TimesTen(R)}})
  ELSE Val({Val({DivLoopV(mid, bh, bl, i - h) : mid \in {DivLoopV(R, bh, bl, h)}}) :
              h \in {i \div 2}})

\* float / float, b nonzero.
DivV(a, b) ==
  IF a[1] = 0 THEN Zero
  ELSE Val({RoundV(a[1] * b[1], r[3][1], r[3][2], r[3][3], r[1] # 0 \/ r[2] # 0,
                   a[4] - b[4] - 17) :
              r \in {Val({DivLoopV(first, b[2], b[3], 17) :
                            first \in {DivStepV(<<a[2], a[3], <<0, 0, 0>>>>, b[2], b[3])}})}})

FDiv(a, b) == Val({DivV(x, y) : x \in {a}, y \in {b}})

\* float ** n for an integer n >= 0: the running product acc times a, n times,
\* the factors taken in order.
RECURSIVE PowLoopV(_, _, _)
PowLoopV(acc, a, n) ==
  IF n = 0 THEN acc
  ELSE IF n = 1 THEN MulV(acc, a)
  ELSE Val({Val({PowLoopV(mid, a, n - h) : mid \in {PowLoopV(acc, a, h)}}) :
              h \in {n \div 2}})

FPow(a, n) == Val({PowLoopV(F(1), x, k) : x \in {a}, k \in {n}})


(***************************************************************************)
(* Python values.  None is <<>> and a value that may be None is <<v>>; a   *)
(* dict is a function on its keys; a call that can raise returns a record  *)
(* holding either the exception's name or the value.                       *)
(***************************************************************************)
None == <<>>
Some(v) == <<v>>
EmptyDict == [k \in {} |-> Zero]
Get(d, k, default) == IF k \in DOMAIN d THEN d[k] ELSE default
Ok(v) == [exc |-> "none", val |-> v]
Raise(e) == [exc |-> e, val |-> Zero]

(***************************************************************************)
(* finance_calculator.py                                                   *)
(***************************************************************************)

\* VehicleData.__init__: the DataFrame indexed by make_model, or an empty
\* DataFrame when the file is not found.  disk maps the files present to
\* their content; a catalog's content is its sequence of rows.
VehicleData(disk, filepath) ==
  IF filepath \in DOMAIN disk THEN disk[filepath] ELSE <<>>

\* VehicleData.get_vehicle_info
get_vehicle_info(df, model_name) ==
  IF df # <<>> /\ \E i \in 1..Len(df) : Some(df[i].make_model) = model_name
  THEN LET i == CHOOSE j \in 1..Len(df) : Some(df[j].make_model) = model_name
       IN Some(df[i].info)
  ELSE None

\* annual_rate / 100 / 12
MonthlyRate(annual_rate) == FDiv(FDiv(annual_rate, F(100)), F(12))

\* calculate_emi.  Dividing by a zero float raises ZeroDivisionError (with a
\* numpy.float64 rate the quotient is inf or nan instead: no EMI either way).
calculate_emi(principal, annual_rate, term_years) ==
  LET term_months == term_years * 12
  IN Val({IF FGt(monthly_rate, Zero) THEN
            Val({IF FSub(growth, F(1)) = Zero THEN Raise("ZeroDivisionError")
                 ELSE Ok(FDiv(FMul(F(principal), FMul(monthly_rate, growth)),
                              FSub(growth, F(1)))) :
                   growth \in {FPow(FAdd(F(1), monthly_rate), term_months)}})
          ELSE IF term_months > 0 THEN Ok(FDiv(F(principal), F(term_months)))
          ELSE Ok(F(0)) :
            monthly_rate \in {MonthlyRate(annual_rate)}})

TcoKeys == {"Loan Payments", "Insurance", "Maintenance", "Fuel/Charging", "Total TCO"}

\* A bug a maintainer could make: the electric branch forgets that efficiency
\* is per 100 miles.
FuelChargingCostPerMile(fuel_type, efficiency, term_years, gas_price, electricity_price) ==
  IF fuel_type = "Gas" THEN
    FMul(FMul(IF FGt(efficiency, Zero) THEN FDiv(F(12000), efficiency) ELSE F(0), gas_price),
         F(term_years))
  ELSE IF fuel_type = "Electric" THEN
    FMul(FMul(FMul(F(12000), efficiency), electricity_price), F(term_years))
  ELSE F(0)

\* total_fuel_charging_cost of calculate_total_cost_of_ownership
FuelChargingCost(fuel_type, efficiency, term_years, gas_price, electricity_price) ==
  LET annual_miles == F(12000)
  IN IF fuel_type = "Gas" THEN
       LET gallons_per_year ==
             IF FGt(efficiency, Zero) THEN FDiv(annual_miles, efficiency) ELSE F(0)
       IN FMul(FMul(gallons_per_year, gas_price), F(term_years))
     ELSE IF fuel_type = "Electric" THEN
       LET kwh_per_year == FMul(FDiv(annual_miles, F(100)), efficiency)
       IN FMul(FMul(kwh_per_year, electricity_price), F(term_years))
     ELSE F(0)

\* A bug a maintainer could make: a component left out of the total.
TotalTcoWithoutMaintenance(total_loan_cost, insurance_cost, maintenance_cost, total_fuel_charging_cost) ==
  FAdd(FAdd(total_loan_cost, insurance_cost), total_fuel_charging_cost)

\* total_tco of calculate_total_cost_of_ownership
TotalTco(total_loan_cost, insurance_cost, maintenance_cost, total_fuel_charging_cost) ==
  FAdd(FAdd(FAdd(total_loan_cost, insurance_cost), maintenance_cost),
       total_fuel_charging_cost)

\* calculate_total_cost_of_ownership; vehicle_info is None or <<dict>>.
calculate_total_cost_of_ownership(vehicle_info, total_loan_cost, term_years, gas_price, electricity_price) ==
  IF vehicle_info = None \/ DOMAIN vehicle_info[1] = {} THEN EmptyDict
  ELSE
    LET info == vehicle_info[1]
        insurance_cost == FMul(Get(info, "avg_insurance_per_year", F(0)), F(term_years))
        maintenance_cost == FMul(Get(info, "avg_maintenance_per_year", F(0)), F(term_years))
        fuel_type == Get(info, "fuel_type", "Gas")
        efficiency == Get(info, "efficiency", F(30))
        total_fuel_charging_cost ==
          FuelChargingCost(fuel_type, efficiency, term_years, gas_price, electricity_price)
        total_tco == TotalTco(total_loan_cost, insurance_cost, maintenance_cost,
                              total_fuel_charging_cost)
    IN [k \in TcoKeys |->
          CASE k = "Loan Payments" -> total_loan_cost
            [] k = "Insurance" -> insurance_cost
            [] k = "Maintenance" -> maintenance_cost
            [] k = "Fuel/Charging" -> total_fuel_charging_cost
            [] k = "Total TCO" -> total_tco]

\* max(0, x)
Max0(x) == Val({IF FGt(v, Zero) THEN v ELSE Zero : v \in {x}})

\* The inner loop of generate_amortization_and_depreciation: the balance after
\* `months` more monthly payments.
RECURSIVE PayMonths(_, _, _, _)
PayMonths(remaining_balance, annual_rate, emi, months) ==
  IF months = 0 THEN remaining_balance
  ELSE IF months = 1 THEN
    Val({FSub(balance, FSub(emi, FMul(balance, MonthlyRate(annual_rate)))) :
           balance \in {remaining_balance}})
  ELSE Val({Val({PayMonths(mid, annual_rate, emi, months - h) :
                   mid \in {PayMonths(remaining_balance, annual_rate, emi, h)}}) :
              h \in {months \div 2}})

\* The outer loop, from `year` on, with the rows appended so far.
RECURSIVE ScheduleFrom(_, _, _, _, _, _, _)
ScheduleFrom(year, remaining_balance, schedule, annual_rate, term_years, emi, vehicle_price) ==
  IF year > term_years THEN schedule
  ELSE
    LET annual_depreciation_rate == Lit(15, -2)
        depreciated_value ==
          IF year = 0 THEN F(vehicle_price)
          ELSE FMul(F(vehicle_price), FPow(FSub(F(1), annual_depreciation_rate), year))
    IN Val({ScheduleFrom(year + 1, balance,
                         Append(rows, [Year |-> year, Loan_Balance |-> Max0(balance),
                                       Car_Value |-> depreciated_value]),
                         annual_rate, term_years, emi, vehicle_price) :
              balance \in {IF year = 0 THEN remaining_balance
                           ELSE PayMonths(remaining_balance, annual_rate, emi, 12)},
              rows \in {schedule}})

\* A bug a maintainer could make: the loop starts at the first year's end and
\* the origination row is never written.
generate_without_origination_row(principal, annual_rate, term_years, emi, vehicle_price, vehicle_info) ==
  Val({ScheduleFrom(1, F(principal), <<>>, rate, term_years, payment, vehicle_price) :
         rate \in {annual_rate}, payment \in {emi}})

\* generate_amortization_and_depreciation (vehicle_info is not read).
generate_amortization_and_depreciation(principal, annual_rate, term_years, emi, vehicle_price, vehicle_info) ==
  Val({ScheduleFrom(0, F(principal), <<>>, rate, term_years, payment, vehicle_price) :
         rate \in {annual_rate}, payment \in {emi}})

(***************************************************************************)
(* app.py: the script, run top to bottom on every interaction.             *)
(***************************************************************************)
ModelFile == "interest_rate_model.joblib"
ColumnsFile == "model_columns.joblib"
CatalogFile == "vehicle_data.csv"
Files == {ModelFile, ColumnsFile, CatalogFile}

\* A catalog as read_csv and set_index leave it: one row per make_model.
Catalog ==
  << [make_model |-> "Toyota RAV4",
      info |-> [make |-> "Toyota", model |-> "RAV4", fuel_type |-> "Gas",
                efficiency |-> F(30), avg_insurance_per_year |-> F(1600),
                avg_maintenance_per_year |-> F(600)]],
     [make_model |-> "Tesla Model 3",
      info |-> [make |-> "Tesla", model |-> "Model 3", fuel_type |-> "Electric",
                efficiency |-> F(25), avg_insurance_per_year |-> F(1800),
                avg_maintenance_per_year |-> F(400)]] >>

FileContent(f) ==
  CASE f = ModelFile -> <<"RandomForestRegressor">>
    [] f = ColumnsFile -> <<"credit_score", "loan_amount_usd", "loan_term_years",
                            "down_payment_percentage", "vehicle_type_Used">>
    [] f = CatalogFile -> Catalog

DiskWith(present) == [f \in present |-> FileContent(f)]

ErrNotFound == "Error: Model or data files not found. Please run the setup scripts first."
ErrCannotStart == "Application cannot start. Please ensure all required data and model files are present."
InfoEnterIncome == "Enter income to see health check."

\* The body of load_resources: joblib.load raises FileNotFoundError for a
\* missing file; VehicleData does not.
load_resources(d) ==
  IF ModelFile \in DOMAIN d /\ ColumnsFile \in DOMAIN d
  THEN [ret |-> <<Some(d[ModelFile]), Some(d[ColumnsFile]), Some(VehicleData(d, CatalogFile))>>,
        shown |-> {}]
  ELSE [ret |-> <<None, None, None>>, shown |-> {ErrNotFound}]

\* Python truth of the three resources: None is false, a fitted model, a
\* non-empty list and any VehicleData object are true.
Truthy(v) == v # None

\* list(vehicle_db.df.index)
IndexList(df) == [i \in 1..Len(df) |-> df[i].make_model]

\* A bug a maintainer could make: the difference is not clipped.
UnderwaterUnclipped(schedule) ==
  [i \in 1..Len(schedule) |-> FSub(schedule[i].Loan_Balance, schedule[i].Car_Value)]

\* (Loan_Balance - Car_Value).clip(lower=0)
Underwater(schedule) ==
  [i \in 1..Len(schedule) |-> Max0(FSub(schedule[i].Loan_Balance, schedule[i].Car_Value))]

\* Series.max()
SeriesMax(series) ==
  series[CHOOSE i \in 1..Len(series) : \A j \in 1..Len(series) : FGe(series[i], series[j])]

\* monthly_tco and tco_ratio of the Financial Health card
TcoRatio(breakdown, term_years, income) ==
  LET monthly_tco == FDiv(Get(breakdown, "Total TCO", F(0)), F(term_years * 12))
  IN FMul(FDiv(monthly_tco, F(income)), F(100))

\* A bug a maintainer could make: the boundary values fall in the lower band.
HealthStatusBoundaryLow(ratio) ==
  IF FLe(ratio, F(15)) THEN "Good"
  ELSE IF FLe(ratio, F(20)) THEN "Borderline"
  ELSE "High-Risk"

\* status_text of the Financial Health card
HealthStatus(ratio) ==
  IF FLt(ratio, F(15)) THEN "Good"
  ELSE IF FLt(ratio, F(20)) THEN "Borderline"
  ELSE "High-Risk"

VARIABLES
  disk,               \* the files present, with their content
  cache,              \* st.cache_resource's entry for load_resources
  loads,              \* how many times the body of load_resources has run
  pc,                 \* where the script (or the caller of a function) is
  exc,                \* the exception that ended the run, "none" if none
  messages,           \* st.error / st.info texts shown by this run
  model, model_cols, vehicle_db,
  vehicle_price, down_payment, loan_term, monthly_income,
  vehicle_model, vehicle_info, fuel_type, gas_price, electricity_price,
  principal, predicted_rate, emi, total_loan_cost, total_interest,
  tco_breakdown, schedule_df, underwater_amounts, max_underwater,
  tco_ratio, status_text

process == <<disk, cache, loads>>
resources == <<model, model_cols, vehicle_db>>
widgets == <<vehicle_price, down_payment, loan_term, monthly_income,
             vehicle_model, vehicle_info, fuel_type, gas_price, electricity_price>>
loan == <<principal, predicted_rate, emi, total_loan_cost, total_interest>>
projection == <<tco_breakdown, schedule_df, underwater_amounts, max_underwater>>
health == <<tco_ratio, status_text>>
vars == <<process, pc, exc, messages, resources, widgets, loan, projection, health>>

\* Every name of the script unassigned.
ScriptStart ==
  /\ exc = "none" /\ messages = {}
  /\ model = None /\ model_cols = None /\ vehicle_db = None
  /\ vehicle_price = None /\ down_payment = None /\ loan_term = None
  /\ monthly_income = None /\ vehicle_model = None /\ vehicle_info = None
  /\ fuel_type = None /\ gas_price = None /\ electricity_price = None
  /\ principal = None /\ predicted_rate = None /\ emi = None
  /\ total_loan_cost = None /\ total_interest = None
  /\ tco_breakdown = None /\ schedule_df = None
  /\ underwater_amounts = None /\ max_underwater = None
  /\ tco_ratio = None /\ status_text = None

\* The values the model takes of each widget's range.
VehiclePrices == {5000, 40000}
DownPayments(price) == {0, 4000, price}
LoanTerms == {3, 4, 5, 6, 7}
Incomes == {0, 1500, 2000, 6000}
GasPrices == {Lit(35, -1)}
ElectricityPrices == {Lit(15, -2)}
\* What model.predict may answer.
PredictedRates == {Lit(35, -1), F(6)}

Init ==
  /\ disk \in {DiskWith(S) : S \in SUBSET Files}
  /\ cache = None /\ loads = 0
  /\ pc = "load"
  /\ ScriptStart

\* model, model_cols, vehicle_db = load_resources(), under @st.cache_resource
LoadResources ==
  /\ pc = "load"
  /\ LET r == load_resources(disk)
         ret == IF cache = None THEN r.ret ELSE cache[1]
     IN /\ cache' = Some(ret)
        /\ loads' = IF cache = None THEN loads + 1 ELSE loads
        /\ messages' = IF cache = None THEN messages \cup r.shown ELSE messages
        /\ model' = ret[1] /\ model_cols' = ret[2] /\ vehicle_db' = ret[3]
  /\ pc' = "gate"
  /\ UNCHANGED <<disk, exc, widgets, loan, projection, health>>

\* if model and model_cols and vehicle_db:
EnterMainApp ==
  /\ pc = "gate"
  /\ Truthy(model) /\ Truthy(model_cols) /\ Truthy(vehicle_db)
  /\ pc' = "sidebar"
  /\ UNCHANGED <<process, exc, messages, resources, widgets, loan, projection, health>>

\* else: st.error("Application cannot start. ...")
CannotStart ==
  /\ pc = "gate"
  /\ ~(Truthy(model) /\ Truthy(model_cols) /\ Truthy(vehicle_db))
  /\ messages' = messages \cup {ErrCannotStart}
  /\ pc' = "stopped"
  /\ UNCHANGED <<process, exc, resources, widgets, loan, projection, health>>

\* with st.sidebar: the widgets, then the lookup of the chosen model.  A
\* selectbox without options returns None; None has no .get (AttributeError).
Sidebar ==
  /\ pc = "sidebar"
  /\ \E price \in VehiclePrices, term \in LoanTerms, income \in Incomes :
     \E down \in DownPayments(price) :
       LET vehicle_model_list == IndexList(vehicle_db[1])
           choices == IF vehicle_model_list = <<>> THEN {None}
                      ELSE {Some(vehicle_model_list[i]) : i \in 1..Len(vehicle_model_list)}
       IN \E chosen \in choices :
            LET looked_up == get_vehicle_info(vehicle_db[1], chosen)
            IN /\ vehicle_price' = price /\ down_payment' = down
               /\ loan_term' = term /\ monthly_income' = income
               /\ vehicle_model' = chosen
               /\ vehicle_info' = looked_up
               /\ IF looked_up = None
                  THEN /\ exc' = "AttributeError"
                       /\ pc' = "crashed"
                       /\ UNCHANGED <<fuel_type, gas_price, electricity_price>>
                  ELSE /\ fuel_type' = Get(looked_up[1], "fuel_type", "Gas")
                       /\ IF fuel_type' = "Gas"
                          THEN /\ gas_price' \in GasPrices
                               /\ electricity_price' = Lit(15, -2)
                          ELSE /\ electricity_price' \in ElectricityPrices
                               /\ gas_price' = Lit(35, -1)
                       /\ pc' = "calc"
                       /\ exc' = exc
  /\ UNCHANGED <<process, messages, resources, loan, projection, health>>

\* --- Calculations ---: the rate, the EMI, the totals, the TCO breakdown, the
\* schedule and the underwater series.
Calculations ==
  /\ pc = "calc"
  /\ principal' = vehicle_price - down_payment
  /\ predicted_rate' \in PredictedRates
  /\ LET r == calculate_emi(principal', predicted_rate', loan_term)
     IN IF r.exc # "none"
        THEN /\ exc' = r.exc
             /\ pc' = "crashed"
             /\ UNCHANGED <<emi, total_loan_cost, total_interest, projection>>
        ELSE /\ emi' = r.val
             /\ total_loan_cost' = FMul(emi', F(loan_term * 12))
             /\ total_interest' = FSub(total_loan_cost', F(principal'))
             /\ tco_breakdown' = calculate_total_cost_of_ownership(
                                    vehicle_info, total_loan_cost', loan_term,
                                    gas_price, electricity_price)
             /\ schedule_df' = generate_amortization_and_depreciation(
                                    principal', predicted_rate', loan_term, emi',
                                    vehicle_price, vehicle_info)
             /\ underwater_amounts' = Underwater(schedule_df')
             /\ max_underwater' = SeriesMax(underwater_amounts')
             /\ pc' = "dashboard"
             /\ exc' = exc
  /\ UNCHANGED <<process, messages, resources, widgets, health>>

\* --- Main Dashboard Layout ---: of its cards only Financial Health computes.
Dashboard ==
  /\ pc = "dashboard"
  /\ IF monthly_income > 0
     THEN /\ tco_ratio' = TcoRatio(tco_breakdown, loan_term, monthly_income)
          /\ status_text' = Some(HealthStatus(tco_ratio'))
          /\ messages' = messages
     ELSE /\ messages' = messages \cup {InfoEnterIncome}
          /\ UNCHANGED health
  /\ pc' = "done"
  /\ UNCHANGED <<process, exc, resources, widgets, loan, projection>>

\* Any interaction runs the script again; only the resource cache survives.
Rerun ==
  /\ pc \in {"done", "stopped", "crashed"}
  /\ pc' = "load"
  /\ exc' = "none" /\ messages' = {}
  /\ model' = None /\ model_cols' = None /\ vehicle_db' = None
  /\ vehicle_price' = None /\ down_payment' = None /\ loan_term' = None
  /\ monthly_income' = None /\ vehicle_model' = None /\ vehicle_info' = None
  /\ fuel_type' = None /\ gas_price' = None /\ electricity_price' = None
  /\ principal' = None /\ predicted_rate' = None /\ emi' = None
  /\ total_loan_cost' = None /\ total_interest' = None
  /\ tco_breakdown' = None /\ schedule_df' = None
  /\ underwater_amounts' = None /\ max_underwater' = None
  /\ tco_ratio' = None /\ status_text' = None
  /\ UNCHANGED process

Next ==
  \/ LoadResources
  \/ EnterMainApp
  \/ CannotStart
  \/ Sidebar
  \/ Calculations
  \/ Dashboard
  \/ Rerun

Spec == Init /\ [][Next]_vars

(***************************************************************************)
(* The functions of finance_calculator.py called directly, on inputs the   *)
(* script does not produce: a zero term, a zero or tiny rate, a record     *)
(* with odd or missing fields, a payment unrelated to the loan.  The       *)
(* arguments and results are kept in the script's variables of the same    *)
(* name (annual_rate in predicted_rate, term_years in loan_term).          *)
(***************************************************************************)
MaxTermYears == 3

Principals == {0, 900, 1200}
AnnualRates == <<F(0), Lit(1, -15), Lit(1, -12), F(6)>>
Payments == <<F(0), F(100)>>
TcoTerms == (0..MaxTermYears) \cup {5}
LoanCosts == <<F(0), F(35000)>>
FnGasPrices == <<Lit(35, -1), F(4)>>
FnElectricityPrices == <<Lit(15, -2), Lit(2, -1)>>

\* What get_vehicle_info can hand over: None, or the dict of a row.
VehicleInfos ==
  << None,
     Some(EmptyDict),
     Some(Catalog[1].info),
     Some(Catalog[2].info),
     Some([fuel_type |-> "Gas", efficiency |-> F(0), avg_insurance_per_year |-> F(1600),
           avg_maintenance_per_year |-> F(600)]),
     Some([fuel_type |-> "Gas", efficiency |-> F(-30), avg_insurance_per_year |-> F(1600),
           avg_maintenance_per_year |-> F(600)]),
     Some([fuel_type |-> "Diesel", efficiency |-> F(40), avg_insurance_per_year |-> F(1500),
           avg_maintenance_per_year |-> F(700)]),
     Some([avg_insurance_per_year |-> F(1600)]) >>

InitFn ==
  /\ disk = DiskWith(Files)
  /\ cache = None /\ loads = 0
  /\ pc = "call"
  /\ ScriptStart

\* emi = calculate_emi(principal, annual_rate, term_years)
CallCalculateEmi ==
  /\ pc = "call"
  /\ \E p \in Principals, i \in DOMAIN AnnualRates, term \in 0..MaxTermYears :
       LET r == calculate_emi(p, AnnualRates[i], term)
       IN /\ principal' = p
          /\ predicted_rate' = AnnualRates[i]
          /\ loan_term' = term
          /\ exc' = r.exc
          /\ emi' = IF r.exc = "none" THEN r.val ELSE None
          /\ pc' = IF r.exc = "none" THEN "emi" ELSE "raised"
  /\ UNCHANGED <<process, messages, resources, vehicle_price, down_payment, monthly_income,
                 vehicle_model, vehicle_info, fuel_type, gas_price, electricity_price,
                 total_loan_cost, total_interest, projection, health>>

\* generate_amortization_and_depreciation with the emi calculate_emi returned
\* for the same principal, rate and term.
CallGenerateWithEmi ==
  /\ pc = "emi"
  /\ \E price \in VehiclePrices :
       /\ vehicle_price' = price
       /\ schedule_df' = generate_amortization_and_depreciation(
                            principal, predicted_rate, loan_term, emi, price, None)
  /\ pc' = "schedule"
  /\ UNCHANGED <<process, exc, messages, resources, down_payment, loan_term, monthly_income,
                 vehicle_model, vehicle_info, fuel_type, gas_price, electricity_price,
                 loan, tco_breakdown, underwater_amounts, max_underwater, health>>

\* generate_amortization_and_depreciation with any payment.
CallGenerateWithPayment ==
  /\ pc = "call"
  /\ \E p \in Principals, i \in DOMAIN AnnualRates, term \in 0..MaxTermYears,
        j \in DOMAIN Payments, price \in VehiclePrices :
       /\ principal' = p
       /\ predicted_rate' = AnnualRates[i]
       /\ loan_term' = term
       /\ emi' = Payments[j]
       /\ vehicle_price' = price
       /\ schedule_df' = generate_amortization_and_depreciation(
                            p, AnnualRates[i], term, Payments[j], price, None)
  /\ pc' = "schedule_any"
  /\ UNCHANGED <<process, exc, messages, resources, down_payment, monthly_income,
                 vehicle_model, vehicle_info, fuel_type, gas_price, electricity_price,
                 total_loan_cost, total_interest, tco_breakdown, underwater_amounts,
                 max_underwater, health>>

\* tco_breakdown = calculate_total_cost_of_ownership(...)
CallTotalCost ==
  /\ pc = "call"
  /\ \E v \in DOMAIN VehicleInfos, c \in DOMAIN LoanCosts, term \in TcoTerms,
        g \in DOMAIN FnGasPrices, e \in DOMAIN FnElectricityPrices :
       /\ vehicle_info' = VehicleInfos[v]
       /\ total_loan_cost' = LoanCosts[c]
       /\ loan_term' = term
       /\ gas_price' = FnGasPrices[g]
       /\ electricity_price' = FnElectricityPrices[e]
       /\ tco_breakdown' = calculate_total_cost_of_ownership(
                              VehicleInfos[v], LoanCosts[c], term,
                              FnGasPrices[g], FnElectricityPrices[e])
  /\ pc' = "tco"
  /\ UNCHANGED <<process, exc, messages, resources, vehicle_price, down_payment,
                 monthly_income, vehicle_model, fuel_type, principal, predicted_rate, emi,
                 total_interest, schedule_df, underwater_amounts, max_underwater, health>>

NextFn ==
  \/ CallCalculateEmi
  \/ CallGenerateWithEmi
  \/ CallGenerateWithPayment
  \/ CallTotalCost

SpecFn == InitFn /\ [][NextFn]_vars

(***************************************************************************)
(* Properties.                                                             *)
(***************************************************************************)

\* C1: for every present vehicle record, the breakdown returned by
\* calculate_total_cost_of_ownership has exactly the five fields Loan
\* Payments, Insurance, Maintenance, Fuel/Charging and Total TCO, and Total
\* TCO is Loan Payments + Insurance + Maintenance + Fuel/Charging (the float
\* sum, taken left to right).
TcoTotalIsSumOfComponents ==
  (pc = "tco" /\ vehicle_info # None /\ DOMAIN vehicle_info[1] # {}) =>
    /\ DOMAIN tco_breakdown = TcoKeys
    /\ tco_breakdown["Loan Payments"] = total_loan_cost
    /\ tco_breakdown["Total TCO"] =
         FAdd(FAdd(FAdd(tco_breakdown["Loan Payments"], tco_breakdown["Insurance"]),
                   tco_breakdown["Maintenance"]),
              tco_breakdown["Fuel/Charging"])

\* A breakdown of an electric vehicle over five years in which each of the
\* four components is positive.
TcoOfElectricVehicleReturned ==
  /\ pc = "tco" /\ vehicle_info # None
  /\ "fuel_type" \in DOMAIN vehicle_info[1]
  /\ vehicle_info[1].fuel_type = "Electric"
  /\ loan_term = 5
  /\ \A k \in TcoKeys : FGt(tco_breakdown[k], Zero)

\* C2: a call of calculate_emi with term_years = 0 is rejected with an
\* InvalidTermError: no EMI is returned and no schedule is produced.
ZeroTermIsRejected ==
  (pc \in {"emi", "raised", "schedule", "schedule_any"} /\ loan_term = 0) =>
    (pc = "raised" /\ exc = "InvalidTermError")

\* C3: when the catalog file or a model artifact is missing the script never
\* goes past the resource gate, it shows the blocking error, and the load is
\* run at most once in the process.
MissingFileStopsTheApp ==
  /\ pc \in {"sidebar", "calc", "dashboard", "done", "crashed"} => Files \subseteq DOMAIN disk
  /\ (pc = "stopped" /\ ~(Files \subseteq DOMAIN disk)) => ErrCannotStart \in messages
  /\ loads <= 1

\* C4: when the lookup of the chosen model answers None the run completes
\* without an exception and computes neither a TCO breakdown nor a schedule.
AbsentVehicleIsHandledGracefully ==
  (pc \in {"calc", "dashboard", "done", "crashed"} /\ vehicle_info = None) =>
    /\ pc # "crashed" /\ exc = "none"
    /\ tco_breakdown = None /\ schedule_df = None

\* C5: generate_amortization_and_depreciation returns term_years + 1 rows, their
\* Year fields 0, 1, ..., term_years in that order, and row 0 holds the
\* principal as Loan_Balance and the vehicle price as Car_Value.
ScheduleHasOriginationAndYearlyRows ==
  pc \in {"schedule", "schedule_any"} =>
    /\ Len(schedule_df) = loan_term + 1
    /\ \A i \in 1..Len(schedule_df) : schedule_df[i].Year = i - 1
    /\ schedule_df[1].Loan_Balance = F(principal)
    /\ schedule_df[1].Car_Value = F(vehicle_price)

\* A schedule over the longest term, for a loan that is paid down and a car
\* that loses value.
ScheduleOverLongestTermReturned ==
  /\ pc = "schedule" /\ loan_term = MaxTermYears /\ principal > 0
  /\ FLt(schedule_df[Len(schedule_df)].Loan_Balance, schedule_df[1].Loan_Balance)
  /\ FLt(schedule_df[Len(schedule_df)].Car_Value, schedule_df[1].Car_Value)

\* C6: the underwater amount of every row of the schedule is
\* max(0, Loan_Balance - Car_Value), so never negative; the peak is the
\* maximum of the series, and is 0 exactly when no row has
\* Loan_Balance > Car_Value.
UnderwaterIsClippedAndPeakIsItsMax ==
  pc \in {"dashboard", "done"} =>
    /\ Len(underwater_amounts) = Len(schedule_df)
    /\ \A i \in 1..Len(schedule_df) :
         /\ underwater_amounts[i] =
              IF FGt(schedule_df[i].Loan_Balance, schedule_df[i].Car_Value)
              THEN FSub(schedule_df[i].Loan_Balance, schedule_df[i].Car_Value)
              ELSE Zero
         /\ FGe(underwater_amounts[i], Zero)
         /\ FGe(max_underwater, underwater_amounts[i])
    /\ \E i \in 1..Len(underwater_amounts) : max_underwater = underwater_amounts[i]
    /\ (max_underwater = Zero) <=>
         (\A i \in 1..Len(schedule_df) :
            ~FGt(schedule_df[i].Loan_Balance, schedule_df[i].Car_Value))

\* A projection with a row under water and a row whose car is worth more than
\* the balance (where the clip acts).
UnderwaterPeakReported ==
  /\ pc = "done"
  /\ FGt(max_underwater, Zero)
  /\ \E i \in 1..Len(schedule_df) : FLt(schedule_df[i].Loan_Balance, schedule_df[i].Car_Value)

\* C7: with ratio = (Total TCO / (term * 12)) / income * 100 the status is
\* Good iff ratio < 15, Borderline iff 15 <= ratio < 20, High-Risk iff
\* ratio >= 20; with income <= 0 neither a ratio nor a status is produced.
HealthStatusFollowsBands ==
  pc = "done" =>
    IF monthly_income > 0
    THEN /\ tco_ratio = FMul(FDiv(FDiv(tco_breakdown["Total TCO"], F(loan_term * 12)),
                                  F(monthly_income)),
                             F(100))
         /\ status_text \in {Some("Good"), Some("Borderline"), Some("High-Risk")}
         /\ status_text = Some("Good") <=> FLt(tco_ratio, F(15))
         /\ status_text = Some("Borderline") <=>
              (FGe(tco_ratio, F(15)) /\ FLt(tco_ratio, F(20)))
         /\ status_text = Some("High-Risk") <=> FGe(tco_ratio, F(20))
    ELSE /\ tco_ratio = None /\ status_text = None
         /\ InfoEnterIncome \in messages

\* A ratio of exactly 20 classified High-Risk.
RatioOfTwentyIsHighRisk ==
  /\ pc = "done" /\ monthly_income > 0
  /\ tco_ratio = F(20)
  /\ status_text = Some("High-Risk")

\* C8: for term_years > 0 the EMI calculate_emi returns, times the number of
\* months, is at least the principal; with principal 0 the EMI is 0.
EmiRecoversPrincipal ==
  (pc = "emi" /\ loan_term > 0) =>
    /\ FGe(FMul(emi, F(loan_term * 12)), F(principal))
    /\ principal = 0 => emi = Zero

\* C9: the Fuel/Charging field is, for a Gas vehicle,
\* (12000 / efficiency) * gas_price * term_years when efficiency > 0 and 0
\* when efficiency <= 0; for an Electric vehicle,
\* (12000 / 100) * efficiency * electricity_price * term_years.  Only the
\* price of the vehicle's own fuel type enters.
EnergyCostFollowsFuelType ==
  (pc = "tco" /\ vehicle_info # None /\ DOMAIN vehicle_info[1] # {}) =>
    LET fuel == Get(vehicle_info[1], "fuel_type", "Gas")
        efficiency == Get(vehicle_info[1], "efficiency", F(30))
    IN /\ fuel = "Gas" =>
            tco_breakdown["Fuel/Charging"] =
              IF FGt(efficiency, Zero)
              THEN FMul(FMul(FDiv(F(12000), efficiency), gas_price), F(loan_term))
              ELSE Zero
       /\ fuel = "Electric" =>
            tco_breakdown["Fuel/Charging"] =
              FMul(FMul(FMul(FDiv(F(12000), F(100)), efficiency), electricity_price),
                   F(loan_term))

\* Gas, 30 miles per gallon, 3.50 a gallon, five years: 7000.
GasExampleCostsSevenThousand ==
  /\ pc = "tco" /\ vehicle_info # None
  /\ "fuel_type" \in DOMAIN vehicle_info[1]
  /\ vehicle_info[1].fuel_type = "Gas"
  /\ vehicle_info[1].efficiency = F(30)
  /\ gas_price = Lit(35, -1)
  /\ loan_term = 5
  /\ tco_breakdown["Fuel/Charging"] = F(7000)

\* C9 as first stated: for a Gas vehicle the field is 0 only when efficiency
\* is 0, and (12000 / efficiency) * gas_price * term_years otherwise.
EnergyCostZeroOnlyAtZeroEfficiency ==
  (pc = "tco" /\ vehicle_info # None /\ DOMAIN vehicle_info[1] # {}) =>
    LET fuel == Get(vehicle_info[1], "fuel_type", "Gas")
        efficiency == Get(vehicle_info[1], "efficiency", F(30))
    IN /\ fuel = "Gas" =>
            tco_breakdown["Fuel/Charging"] =
              IF efficiency = Zero THEN Zero
              ELSE FMul(FMul(FDiv(F(12000), efficiency), gas_price), F(loan_term))
       /\ fuel = "Electric" =>
            tco_breakdown["Fuel/Charging"] =
              FMul(FMul(FMul(FDiv(F(12000), F(100)), efficiency), electricity_price),
                   F(loan_term))

\* C10: when the emi is the one calculate_emi returned for the same principal,
\* rate and term_years > 0, the last row's Loan_Balance is 0 within a
\* tolerance of one cent,
\* every Loan_Balance is >= 0, and no earlier row records 0 unless the
\* principal is 0.
ScheduleEndsPaidOff ==
  (pc = "schedule" /\ loan_term > 0) =>
    /\ FLe(schedule_df[Len(schedule_df)].Loan_Balance, Lit(1, -2))
    /\ \A i \in 1..Len(schedule_df) : FGe(schedule_df[i].Loan_Balance, Zero)
    /\ principal > 0 =>
         \A i \in 1..(Len(schedule_df) - 1) : schedule_df[i].Loan_Balance # Zero

====
